---- MODULE Spec2Model ----
(***************************************************************************)
(* Risk-managed decision engine of the Crypto Sentinel bot.                *)
(*                                                                         *)
(*   RiskManager      src/src/engine/risk.js                               *)
(*   TradingEngine    src/src/signal/sentiment.js (second half)            *)
(*   Discord control  src/src/integration/discord.js                       *)
(*   configuration    src/unnamed/part_001                                 *)
(*                                                                         *)
(* Money is counted in whole USDT where the exchange reports a portfolio   *)
(* value, and in 1/Unit USDT where the sizing algorithm multiplies it by   *)
(* percentages.  Fractions of the configuration are held as percentages.   *)
(* JavaScript doubles are modelled as exact rationals.                     *)
(***************************************************************************)
EXTENDS Integers, Sequences, FiniteSets, TLC

(***************************************************************************)
(* Configuration (src/unnamed/part_001).  Every value is read from the     *)
(* environment with the default given in the comment.                      *)
(***************************************************************************)
corePct == 60                 \* allocation.core            0.60
satellitePct == 40            \* allocation.satellite       0.40
maxRiskPerTradePct == 1       \* risk.maxRiskPerTrade       0.01
maxSatelliteExposurePct == 25 \* risk.maxSatelliteExposure  0.25
dailyLossLimitPct == 5        \* risk.dailyLossLimit        0.05
maxTradesPerDay == 2          \* risk.maxTradesPerDay       MAX_TRADES_PER_DAY=2 (default 10)
minOrderSizeUsdt == 10        \* risk.minOrderSizeUsdt      10
maxOpenSatelliteTrades == 1   \* risk.maxOpenSatelliteTrades MAX_OPEN_SATELLITE_TRADES=1 (default 2)
minBalanceToTrade == 15       \* risk.minBalanceToTrade     15
minSentiment == 20            \* risk.minSentiment          20
minToTrade == 60              \* confidence.minToTrade      60
highThreshold == 85           \* confidence.highThreshold   85
defaultStopLossPct == 2       \* risk.defaultStopLoss       0.02
defaultTakeProfitPct == 4     \* risk.defaultTakeProfit     0.04
rsiOversold == 30             \* technicals.rsiOversold     30

\* TRADING_PAIRS and CORE_COINS: one configured pair is also a core coin.
pairs == <<"BTCUSDT", "SOLUSDT">>
coreCoins == <<"BTCUSDT", "ETHUSDT">>

(***************************************************************************)
(* Bounds of the model.                                                    *)
(***************************************************************************)
MaxDay == 2          \* calendar days the run covers
MaxTradesCount == 3  \* cap of dailyStats.tradesCount
MaxFilled == 3       \* cap of the satellite entries filled in one day
MaxOrders == 2       \* exit pairs placed for one symbol
MaxNews == 2         \* news items returned by one getLatestNews call

\* Portfolio values passed to updateBalance by a caller of the RiskManager.
Balances == {0, 10, 12, 14, 38, 40, 940, 1000}
\* Portfolio values the exchange reports to the engine.
ExchangeValues == {12, 38, 40}
\* Value held in core coins the exchange reports to the rebalance pass.
CoreValues == {0, 24}
\* Value held in core coins passed to a direct evaluation of the rebalance.
CoreHoldings == {0, 5, 10, 11, 27, 28, 550}
\* Fear-and-greed gauge values.
Sentiments == {10, 50}
\* Confidence of a verdict of the sentiment analyser.
Confidences == {80, 82, 90}
\* Readings of the technical pre-screen: the RSI of the 1h and of the 4h
\* candles, and the three-candle volatility in 1/1000.
Rsi1h == {29, 30, 45, 46, 60}
Rsi4h == {65, 66}
Volatilities == {50, 51}

\* Arguments of a direct call of calculatePositionSize.
Capitals == {0, 20, 25, 50, 1000}
Scores == {50, 59, 60, 65, 74, 75, 84, 85, 90, 95}
\* Arguments of a direct call of getExitPoints: prices in USDT, and target
\* gains that are absent (null), numbers of percent, NaN, or a string.
EntryPrices == {1, 100, 250}
Sides == {"BUY", "SELL", "HOLD"}
TargetGainNumbers == {-5, 0, 1, 2, 10, 15, 20}

\* Entry price, in USDT, of a position whose exit pair is trailed.
TrailEntryPrices == {100}
\* Prices returned by getPrice to a trailing-stop pass, in ticks of 1/100 USDT.
Prices == {9996, 9997, 10100}

Unit == 2 * 100 * 100

VARIABLES
    dailyStats,   \* RiskManager.dailyStats
    persisted,    \* data/daily_stats.json
    today,        \* calendar date of the wall clock
    logged,       \* breaker events logged by the last RiskManager operation
    op,           \* the last RiskManager operation that ran
    ret,          \* the last direct call of calculatePositionSize or
                  \* getExitPoints: its arguments and what it returned; in
                  \* a trailing-stop pass, the prices the step just taken
                  \* compared
    sent,         \* notifications requested of the Discord channel by the
                  \* step just taken
    scan,         \* position of TradingEngine.runLoop and its locals
    hb,           \* position of TradingEngine.heartbeat and its locals
    oco,          \* configured pairs with an open take-profit/stop-loss pair
    filled,       \* satellite market buys filled on the current calendar day
    book,         \* the exit pair of every configured pair on the exchange
    trail,        \* position of every manageTrailingStops pass and its locals
    manualReset   \* a resume or resetBreaker happened on the current calendar day

vars == <<dailyStats, persisted, today, logged, op, ret, sent, scan, hb, oco,
          filled, book, trail, manualReset>>

engineVars == <<scan, hb, oco, filled>>

trailVars == <<book, trail>>


PairSet == {pairs[i] : i \in 1..Len(pairs)}
CoreSet == {coreCoins[i] : i \in 1..Len(coreCoins)}

\* The callers of manageTrailingStops.
Passers == {"runLoop", "heartbeat"}

\* An exit pair of the book: the list id the exchange gave it, whether it is
\* open, the stop price of its STOP_LOSS_LIMIT order and the price of its
\* LIMIT_MAKER order, in ticks of 1/100 USDT.  A symbol without an open exit
\* pair keeps the last list id given.
NoOrder(orderListId) ==
    [orderListId |-> orderListId, open |-> FALSE, stopPrice |-> 0, price |-> 0]

NoOrders == [s \in PairSet |-> NoOrder(0)]

(***************************************************************************)
(* RiskManager                                                             *)
(***************************************************************************)
NaN == [nan |-> TRUE]

\* The null that JSON.parse returns for a number JSON.stringify could not
\* write; in a comparison or a sum null counts as 0.
Null == [null |-> TRUE]

\* (totalValue / initialBalance) - 1 as the rational (v - b) / b; 0/0 is NaN.
PnL(totalValue, initialBalance) ==
    IF initialBalance = 0
    THEN NaN
    ELSE [num |-> totalValue - initialBalance, den |-> initialBalance]

ZeroStats(date) ==
    [date |-> date,
     initialBalance |-> 0,
     currentBalance |-> 0,
     tradesCount |-> 0,
     dailyPnL |-> [num |-> 0, den |-> 1],
     isHalted |-> FALSE]

\* saveStats: the record that parsing the written file gives back.
\* JSON.stringify writes a NaN as null.
saveStats(ds) ==
    [ds EXCEPT !.dailyPnL = IF @ = NaN THEN Null ELSE @]

\* A load that starts every process run from a fresh record.
loadStats_fresh(saved, date) == ZeroStats(date)

\* loadStats: the saved record when it is of today, else a fresh one (saved).
loadStats(saved, date) ==
    IF saved.date = date THEN saved ELSE ZeroStats(date)

\* dailyPnL <= -config.risk.dailyLossLimit (a comparison with NaN is false,
\* and null is compared as 0)
LossLimitReached_strict(ds) ==
    /\ ds.dailyPnL \notin {NaN, Null}
    /\ ds.dailyPnL.num * 100 < -dailyLossLimitPct * ds.dailyPnL.den

LossLimitReached(ds) ==
    /\ ds.dailyPnL \notin {NaN, Null}
    /\ ds.dailyPnL.num * 100 <= -dailyLossLimitPct * ds.dailyPnL.den

MaxTradesReached_strict(ds) == ds.tradesCount > maxTradesPerDay

MaxTradesReached(ds) == ds.tradesCount >= maxTradesPerDay

MinBalanceBreached_loss(ds) ==
    /\ ds.currentBalance > 0
    /\ ds.currentBalance < minBalanceToTrade
    /\ ds.currentBalance < ds.initialBalance

MinBalanceBreached(ds) ==
    /\ ds.currentBalance > 0
    /\ ds.currentBalance < minBalanceToTrade

\* A breaker condition that logs its event whenever it holds.
BreakerStep_always(r, cond, reason) ==
    IF cond
    THEN [stats |-> [r.stats EXCEPT !.isHalted = TRUE],
          log |-> Append(r.log, reason)]
    ELSE r

\* One "if (cond) { if (!isHalted) { isHalted = true; logBreaker(..) } }".
BreakerStep(r, cond, reason) ==
    IF cond /\ ~r.stats.isHalted
    THEN [stats |-> [r.stats EXCEPT !.isHalted = TRUE],
          log |-> Append(r.log, reason)]
    ELSE r

\* A breaker that follows its conditions instead of latching.
checkBreakers_unlatched(ds) ==
    LET any == LossLimitReached(ds) \/ MaxTradesReached(ds) \/ MinBalanceBreached(ds)
    IN [stats |-> [ds EXCEPT !.isHalted = any],
        log |-> IF any /\ ~ds.isHalted THEN <<"Breaker">> ELSE <<>>]

checkBreakers(ds) ==
    LET r0 == [stats |-> ds, log |-> <<>>]
        r1 == BreakerStep(r0, LossLimitReached(ds), "Daily loss limit reached")
        r2 == BreakerStep(r1, MaxTradesReached(ds), "Max daily trades reached")
    IN BreakerStep(r2, MinBalanceBreached(ds), "Balance below safe threshold")

\* An updateBalance that takes every observation as the baseline.
updateBalance_rebase(ds, totalValue) ==
    checkBreakers([ds EXCEPT !.initialBalance = totalValue,
                             !.currentBalance = totalValue,
                             !.dailyPnL = PnL(totalValue, totalValue)])

updateBalance(ds, totalValue) ==
    LET initial == IF ds.initialBalance = 0 THEN totalValue ELSE ds.initialBalance
    IN checkBreakers([ds EXCEPT !.initialBalance = initial,
                                !.currentBalance = totalValue,
                                !.dailyPnL = PnL(totalValue, initial)])

\* A recordTrade that books a cost of the trade on the balance.
recordTrade_booked(ds) ==
    checkBreakers([ds EXCEPT !.tradesCount = @ + 1, !.currentBalance = @ - 1])

recordTrade(ds) ==
    checkBreakers([ds EXCEPT !.tradesCount = @ + 1])

canTrade(ds) == ~ds.isHalted

resetBreaker_fresh(ds) ==
    [stats |-> [ZeroStats(ds.date) EXCEPT !.initialBalance = ds.initialBalance,
                                          !.currentBalance = ds.currentBalance,
                                          !.dailyPnL = ds.dailyPnL],
     log |-> <<>>]

resetBreaker(ds) ==
    [stats |-> [ds EXCEPT !.isHalted = FALSE], log |-> <<>>]

\* The configuration object the RiskManager reads (part_001).
config ==
    [satellitePct |-> satellitePct,
     maxRiskPerTradePct |-> maxRiskPerTradePct,
     maxSatelliteExposurePct |-> maxSatelliteExposurePct,
     minOrderSizeUsdt |-> minOrderSizeUsdt,
     minToTrade |-> minToTrade,
     highThreshold |-> highThreshold]

\* A sizing that looks at the confidence only.
sizingRefused_confidence(cfg, ds, confidenceScore) ==
    confidenceScore < cfg.minToTrade

\* calculatePositionSize: the two early "return 0"
sizingRefused(cfg, ds, confidenceScore) ==
    \/ ds.isHalted
    \/ confidenceScore < cfg.minToTrade

\* A risk factor with the upper tier only.
riskFactor2_upperOnly(cfg, confidenceScore) ==
    IF confidenceScore >= cfg.highThreshold THEN cfg.maxRiskPerTradePct * 4
    ELSE cfg.maxRiskPerTradePct * 2

\* calculatePositionSize: twice riskFactor, in percent
riskFactor2(cfg, confidenceScore) ==
    IF confidenceScore >= cfg.highThreshold THEN cfg.maxRiskPerTradePct * 4
    ELSE IF confidenceScore >= 75 THEN cfg.maxRiskPerTradePct * 3
    ELSE cfg.maxRiskPerTradePct * 2

\* A sizing that never finds a value too small.
belowMinOrder_never(cfg, tradeValue) == FALSE

\* calculatePositionSize: tradeValue < config.risk.minOrderSizeUsdt
belowMinOrder(cfg, tradeValue) == tradeValue < cfg.minOrderSizeUsdt * Unit

\* A cap at the whole satellite bucket.
maxSatelliteTrade_bucket(cfg, satelliteCapital) == satelliteCapital

\* calculatePositionSize: Math.max(satelliteCapital * maxSatelliteExposure,
\* minOrderSizeUsdt)
maxSatelliteTrade(cfg, satelliteCapital) ==
    LET exposure == (satelliteCapital \div 100) * cfg.maxSatelliteExposurePct
        minOrder == cfg.minOrderSizeUsdt * Unit
    IN IF exposure > minOrder THEN exposure ELSE minOrder

\* Result in 1/Unit USDT; totalCapital in USDT.
calculatePositionSize(cfg, ds, totalCapital, confidenceScore) ==
    IF sizingRefused(cfg, ds, confidenceScore) THEN 0
    ELSE
      LET minOrder == cfg.minOrderSizeUsdt * Unit
          satelliteCapital == totalCapital * cfg.satellitePct * (Unit \div 100)
          tradeValue1 == totalCapital * riskFactor2(cfg, confidenceScore)
                           * (Unit \div 200)
          \* small account adjustment
          tradeValue2 == IF belowMinOrder(cfg, tradeValue1) THEN minOrder
                         ELSE tradeValue1
          cap == maxSatelliteTrade(cfg, satelliteCapital)
          tradeValue3 == IF tradeValue2 > cap THEN cap ELSE tradeValue2
      IN IF belowMinOrder(cfg, tradeValue1) /\ satelliteCapital < minOrder THEN 0
         ELSE IF belowMinOrder(cfg, tradeValue3)
              THEN IF satelliteCapital >= minOrder THEN minOrder ELSE 0
              ELSE tradeValue3

\* A take-profit that follows the suggested target wherever it points.
tpPercent_unclamped(targetGain) ==
    IF "num" \in DOMAIN targetGain /\ targetGain.num # 0
    THEN targetGain.num
    ELSE defaultTakeProfitPct

\* getExitPoints: the take-profit in percent.  "targetGain && typeof
\* targetGain === 'number'" holds of a number that is neither 0 nor NaN.
tpPercent(targetGain) ==
    IF "num" \in DOMAIN targetGain /\ targetGain.num # 0
    THEN LET floored == IF targetGain.num > 2 THEN targetGain.num ELSE 2
         IN IF floored < 15 THEN floored ELSE 15
    ELSE defaultTakeProfitPct

\* Exit points that take every side for a long entry.
getExitPoints_longOnly(entryPrice, side, targetGain) ==
    [stopLoss |-> entryPrice * (100 - defaultStopLossPct),
     takeProfit |-> entryPrice * (100 + tpPercent(targetGain))]

\* Prices in 1/100 USDT; entryPrice in USDT.
getExitPoints(entryPrice, side, targetGain) ==
    LET slPercent == defaultStopLossPct
    IN IF side = "BUY"
       THEN [stopLoss |-> entryPrice * (100 - slPercent),
             takeProfit |-> entryPrice * (100 + tpPercent(targetGain))]
       ELSE [stopLoss |-> entryPrice * (100 + slPercent),
             takeProfit |-> entryPrice * (100 - tpPercent(targetGain))]

(***************************************************************************)
(* Initial state: the process has been constructed on day 1 with no saved  *)
(* record, so loadStats wrote a fresh one.                                 *)
(***************************************************************************)
ScanIdle ==
    [pc |-> "sleep",      \* the await runLoop is at
     sentiment |-> Null,  \* tick: [value |-> marketSentiment]
     open |-> {},         \* tick: the symbols of openOrders
     active |-> {},       \* tick: activeSatellitePairs
     idx |-> 0,           \* tick: index of pair in config.trading.pairs
     screen |-> Null,     \* processPair: rsi1h, rsi4h, volatility
     news |-> 0,          \* processPair: newsItems not yet analysed
     verdict |-> "",      \* executeSatelliteTrade: analysis.verdict
     action |-> "",       \* executeSatelliteTrade: analysis.suggested_action
     conf |-> 0,          \* executeSatelliteTrade: analysis.confidence
     bought |-> FALSE]    \* executeSatelliteTrade: marketBuy has filled
\* manageTrailingStops: no pass under way
TrailIdle ==
    [pc |-> "idle",                \* the await the pass is at
     openOrders |-> NoOrders,      \* openOrders
     todo |-> <<>>,                \* symbols of stopOrders from `order` on
     currentPrice |-> 0,           \* currentPrice
     newStopPrice |-> 0]           \* newStopPrice, in 1/100 of a tick

HbIdle == [pc |-> "idle", total |-> 0, idx |-> 0]

Init ==
    /\ today = 1
    /\ dailyStats = ZeroStats(1)
    /\ persisted = ZeroStats(1)
    /\ logged = <<>>
    /\ op = "loadStats"
    /\ ret = [fn |-> "none"]
    /\ sent = <<>>
    /\ scan = ScanIdle
    /\ hb = HbIdle
    /\ oco = {}
    /\ filled = 0
    /\ book = NoOrders
    /\ trail = [p \in Passers |-> TrailIdle]
    /\ manualReset = FALSE

\* A RiskManager operation followed by saveStats.
Apply(r, name) ==
    /\ dailyStats' = r.stats
    /\ persisted' = saveStats(r.stats)
    /\ logged' = r.log
    /\ op' = name
    /\ UNCHANGED ret

(***************************************************************************)
(* Operations every caller can reach: Discord commands, a process restart, *)
(* the calendar.                                                           *)
(***************************************************************************)
\* discord.js handlePause / '!pause'
HandlePause ==
    /\ Apply([stats |-> [dailyStats EXCEPT !.isHalted = TRUE], log |-> <<>>], "pause")
    /\ UNCHANGED <<today, engineVars, manualReset>>
    /\ sent' = <<>>
    /\ UNCHANGED trailVars

\* discord.js handleResume / '!resume'
HandleResume ==
    /\ Apply([stats |-> [dailyStats EXCEPT !.isHalted = FALSE], log |-> <<>>], "resume")
    /\ manualReset' = TRUE
    /\ UNCHANGED <<today, engineVars>>
    /\ sent' = <<>>
    /\ UNCHANGED trailVars

\* The process is restarted: new RiskManager(), new TradingEngine().start().
Restart ==
    /\ Apply([stats |-> loadStats(persisted, today), log |-> <<>>], "loadStats")
    /\ scan' = ScanIdle
    /\ hb' = HbIdle
    /\ UNCHANGED <<today, oco, filled, manualReset>>
    /\ sent' = <<>>
    /\ UNCHANGED trailVars

\* Midnight (UTC) passes.
DayAdvance ==
    /\ today < MaxDay
    /\ today' = today + 1
    /\ filled' = 0
    /\ manualReset' = FALSE
    /\ UNCHANGED <<dailyStats, persisted, logged, op, ret, scan, hb, oco>>
    /\ sent' = <<>>
    /\ UNCHANGED trailVars

(***************************************************************************)
(* TradingEngine.  Each action is the code that runs when one awaited call *)
(* settles, up to the next await.  "Fails" actions are the call rejecting. *)
(***************************************************************************)
rmVars == <<dailyStats, persisted, logged, op, ret>>

Min(S) == CHOOSE x \in S : \A y \in S : x <= y

\* Symbols of the open orders the exchange lists.
OpenOrderSymbols == oco

\* tick: the symbols of the open orders that are no core coin
ActiveSatellitePairs(symbols) == symbols \ CoreSet

\* tick "for (const pair of config.trading.pairs)": the next pair from index
\* `from` on that the snapshot does not list, else the end of the loop.
\* A tick whose return stops the loop.
EndTick_stopped(marketSentiment) ==
    [ScanIdle EXCEPT !.pc = "stopped", !.sentiment = marketSentiment]

\* tick returned: runLoop goes on to manageTrailingStops.  The gauge value is
\* kept where it is what ended the tick.
EndTick(marketSentiment) ==
    [ScanIdle EXCEPT !.pc = "trail", !.sentiment = marketSentiment]

\* A loop that takes the pair before `from` again.
NextPair_again(cycle, from) ==
    [ScanIdle EXCEPT !.pc = "candles", !.idx = IF from > 1 THEN from - 1 ELSE 1,
                     !.sentiment = cycle.sentiment,
                     !.open = cycle.open, !.active = cycle.active]

NextPair(cycle, from) ==
    LET rest == {i \in from..Len(pairs) : pairs[i] \notin cycle.active}
    IN IF rest = {}
       THEN EndTick(Null)
       ELSE [ScanIdle EXCEPT !.pc = "candles", !.idx = Min(rest),
                             !.sentiment = cycle.sentiment,
                             !.open = cycle.open, !.active = cycle.active]

\* processPair / executeSatelliteTrade returned: tick re-reads the open orders.
EndPair ==
    [ScanIdle EXCEPT !.pc = "recheck", !.idx = scan.idx,
                     !.sentiment = scan.sentiment,
                     !.open = scan.open, !.active = scan.active]

\* runLoop: the 30-minute (or, after an error, 60-second) sleep ends.
TickStart ==
    /\ scan.pc = "sleep"
    /\ scan' = [ScanIdle EXCEPT !.pc = "balance"]
    /\ UNCHANGED <<rmVars, today, hb, oco, filled, manualReset>>
    /\ sent' = <<>>
    /\ UNCHANGED trailVars

\* tick: getTotalValueUsdt, updateBalance, canTrade
TickBalance ==
    /\ scan.pc = "balance"
    /\ \E v \in ExchangeValues :
         LET r == updateBalance(dailyStats, v)
         IN /\ Apply(r, "updateBalance")
            /\ scan' = [ScanIdle EXCEPT !.pc = IF canTrade(r.stats) THEN "sentiment" ELSE "trail"]
    /\ UNCHANGED <<today, hb, oco, filled, manualReset>>
    /\ sent' = <<>>
    /\ UNCHANGED trailVars

\* tick throws: runLoop logs and sleeps, manageTrailingStops is skipped
TickBalanceFails ==
    /\ scan.pc = "balance"
    /\ scan' = ScanIdle
    /\ UNCHANGED <<rmVars, today, hb, oco, filled, manualReset>>
    /\ sent' = <<>>
    /\ UNCHANGED trailVars

\* A gate that lets every gauge value pass.
sentimentTooLow_never(marketSentiment) == FALSE

\* tick: marketSentiment < config.risk.minSentiment
sentimentTooLow(marketSentiment) == marketSentiment < minSentiment

\* tick: getMarketSentiment (50 when the gauge cannot be read)
TickSentiment ==
    /\ scan.pc = "sentiment"
    /\ \E marketSentiment \in Sentiments :
         scan' = IF sentimentTooLow(marketSentiment)
                 THEN EndTick([value |-> marketSentiment])
                 ELSE [ScanIdle EXCEPT !.pc = "openOrders",
                                       !.sentiment = [value |-> marketSentiment]]
    /\ UNCHANGED <<rmVars, today, hb, oco, filled, manualReset>>
    /\ sent' = <<>>
    /\ UNCHANGED trailVars

\* tick: getOpenOrders, the concurrency cap, the first pair
TickOpenOrders ==
    /\ scan.pc = "openOrders"
    /\ LET activeSatellitePairs == ActiveSatellitePairs(OpenOrderSymbols)
       IN scan' = IF Cardinality(activeSatellitePairs) >= maxOpenSatelliteTrades
                  THEN EndTick(Null)
                  ELSE NextPair([scan EXCEPT !.open = OpenOrderSymbols,
                                             !.active = activeSatellitePairs], 1)
    /\ UNCHANGED <<rmVars, today, hb, oco, filled, manualReset>>
    /\ sent' = <<>>
    /\ UNCHANGED trailVars

TickOpenOrdersFails ==
    /\ scan.pc \in {"openOrders", "recheck"}
    /\ scan' = ScanIdle
    /\ UNCHANGED <<rmVars, today, hb, oco, filled, manualReset>>
    /\ sent' = <<>>
    /\ UNCHANGED trailVars

\* A pre-screen without the veto of the 4h trend.
PreScreen_noVeto(screen) ==
    /\ ~(screen.volatility > 50)
    /\ (screen.rsi1h < rsiOversold \/ (screen.rsi1h > 45 /\ screen.rsi1h < 60))

\* processPair: no veto of the 4h RSI (> 65), no volatility above 5%, and
\* the 1h RSI oversold or in the momentum band
PreScreen(screen) ==
    /\ ~(screen.rsi4h > 65)
    /\ ~(screen.volatility > 50)
    /\ (screen.rsi1h < rsiOversold \/ (screen.rsi1h > 45 /\ screen.rsi1h < 60))

\* processPair: both getCandles calls, the RSI and volatility filters
ProcessPairCandles ==
    /\ scan.pc = "candles"
    /\ \E screen \in [rsi1h : Rsi1h, rsi4h : Rsi4h, volatility : Volatilities] :
         scan' = IF PreScreen(screen)
                 THEN [scan EXCEPT !.pc = "news", !.screen = screen]
                 ELSE EndPair
    /\ UNCHANGED <<rmVars, today, hb, oco, filled, manualReset>>
    /\ sent' = <<>>
    /\ UNCHANGED trailVars

ProcessPairCandlesFails ==
    /\ scan.pc = "candles"
    /\ scan' = EndPair
    /\ UNCHANGED <<rmVars, today, hb, oco, filled, manualReset>>
    /\ sent' = <<>>
    /\ UNCHANGED trailVars

\* processPair: getLatestNews ([] on any failure)
ProcessPairNews ==
    /\ scan.pc = "news"
    /\ \E n \in 0..MaxNews :
         scan' = IF n = 0 THEN EndPair ELSE [scan EXCEPT !.pc = "analyze", !.screen = Null, !.news = n]
    /\ UNCHANGED <<rmVars, today, hb, oco, filled, manualReset>>
    /\ sent' = <<>>
    /\ UNCHANGED trailVars

\* A test of the verdict that takes every suggested purchase.
Qualifies_anyBuy(analysis) ==
    /\ analysis # Null
    /\ analysis.suggested_action = "BUY"

\* processPair: analysis && analysis.suggested_action === 'BUY' &&
\* analysis.verdict === 'BULLISH' && analysis.confidence > 80
Qualifies(analysis) ==
    /\ analysis # Null
    /\ analysis.suggested_action = "BUY"
    /\ analysis.verdict = "BULLISH"
    /\ analysis.confidence > 80

\* processPair: analyzeNews of the next item; null is a failed analysis or
\* a reply that is no JSON
ProcessPairAnalyze ==
    /\ scan.pc = "analyze"
    /\ \E analysis \in {Null} \cup
                       [suggested_action : {"BUY", "FOLD"},
                        verdict : {"BULLISH", "NEUTRAL"},
                        confidence : Confidences] :
         IF Qualifies(analysis)
         THEN scan' = [scan EXCEPT !.pc = "exec_value", !.news = 0,
                                   !.verdict = analysis.verdict,
                                   !.action = analysis.suggested_action,
                                   !.conf = analysis.confidence]
         ELSE scan' = IF scan.news = 1 THEN EndPair
                      ELSE [scan EXCEPT !.news = @ - 1]
    /\ UNCHANGED <<rmVars, today, hb, oco, filled, manualReset>>
    /\ sent' = <<>>
    /\ UNCHANGED trailVars

\* executeSatelliteTrade: getTotalValueUsdt, calculatePositionSize
ExecValue ==
    /\ scan.pc = "exec_value"
    /\ \E totalValue \in ExchangeValues :
         LET tradeSizeUsdt == calculatePositionSize(config, dailyStats, totalValue, scan.conf)
         IN scan' = IF tradeSizeUsdt <= 0 THEN EndPair
                    ELSE [scan EXCEPT !.pc = "exec_price"]
    /\ UNCHANGED <<rmVars, today, hb, oco, filled, manualReset>>
    /\ sent' = <<>>
    /\ UNCHANGED trailVars

\* executeSatelliteTrade: getPrice settles and marketBuy is submitted
ExecPrice ==
    /\ scan.pc = "exec_price"
    /\ scan' = [scan EXCEPT !.pc = "exec_buy"]
    /\ UNCHANGED <<rmVars, today, hb, oco, filled, manualReset>>
    /\ sent' = <<>>
    /\ UNCHANGED trailVars

\* executeSatelliteTrade: a call rejects before any order is filled
ExecFails ==
    /\ scan.pc \in {"exec_value", "exec_price", "exec_buy"}
    /\ scan' = EndPair
    /\ UNCHANGED <<rmVars, today, hb, oco, filled, manualReset>>
    /\ sent' = <<>>
    /\ UNCHANGED trailVars

\* executeSatelliteTrade: marketBuy filled; getExitPoints; ocoSell is submitted
ExecBuy ==
    /\ scan.pc = "exec_buy"
    /\ filled < MaxFilled
    /\ filled' = filled + 1
    /\ scan' = [scan EXCEPT !.pc = "exec_oco", !.bought = TRUE]
    /\ UNCHANGED <<rmVars, today, hb, oco, manualReset>>
    /\ sent' = <<>>
    /\ UNCHANGED trailVars

\* binance.marketBuy: the order filled, then updateBalances threw
ExecBuyFilledThrows ==
    /\ scan.pc = "exec_buy"
    /\ filled < MaxFilled
    /\ filled' = filled + 1
    /\ scan' = EndPair
    /\ UNCHANGED <<rmVars, today, hb, oco, manualReset>>
    /\ sent' = <<>>
    /\ UNCHANGED trailVars

\* executeSatelliteTrade: ocoSell placed; recordTrade
ExecOco ==
    /\ scan.pc = "exec_oco"
    /\ dailyStats.tradesCount < MaxTradesCount
    /\ oco' = oco \cup {pairs[scan.idx]}
    /\ Apply(recordTrade(dailyStats), "recordTrade")
    /\ scan' = EndPair
    /\ UNCHANGED <<today, hb, filled, manualReset>>
    /\ sent' = <<"Trade BUY">>
    /\ UNCHANGED trailVars

\* executeSatelliteTrade: ocoSell rejected; the catch block logs and returns
ExecOcoFails ==
    /\ scan.pc = "exec_oco"
    /\ scan' = EndPair
    /\ UNCHANGED <<rmVars, today, hb, oco, filled, manualReset>>
    /\ sent' = <<>>
    /\ UNCHANGED trailVars

\* tick: the re-check of the cap after a pair, then the next pair
TickRecheck ==
    /\ scan.pc = "recheck"
    /\ LET currentPairs == ActiveSatellitePairs(OpenOrderSymbols)
       IN scan' = IF Cardinality(currentPairs) >= maxOpenSatelliteTrades
                  THEN EndTick(Null)
                  ELSE NextPair(scan, scan.idx + 1)
    /\ UNCHANGED <<rmVars, today, hb, oco, filled, manualReset>>
    /\ sent' = <<>>
    /\ UNCHANGED trailVars

\* manageTrailingStops: a pass either leaves the exit pairs listed as they
\* are (untouched or replaced), or cancels one and fails to replace it.
TrailingPass ==
    \/ oco' = oco
    \/ \E p \in oco : oco' = oco \ {p}

\* manageTrailingStops: "Trailing Stop updated" is sent for every pair the
\* pass replaced, so for none when no exit pair is listed.
TrailingAlerts ==
    IF oco = {} THEN {<<>>} ELSE {<<>>, <<"Trailing Stop updated">>}

ScanTrailingStops ==
    /\ scan.pc = "trail"
    /\ TrailingPass
    /\ sent' \in TrailingAlerts
    /\ scan' = ScanIdle
    /\ UNCHANGED <<rmVars, today, hb, filled, manualReset>>
    /\ UNCHANGED trailVars

\* setInterval(() => this.heartbeat(), 60000)
HbStart ==
    /\ hb.pc = "idle"
    /\ hb' = [HbIdle EXCEPT !.pc = "balance"]
    /\ UNCHANGED <<rmVars, today, scan, oco, filled, manualReset>>
    /\ sent' = <<>>
    /\ UNCHANGED trailVars

\* heartbeat: getTotalValueUsdt, updateBalance, checkMaintainCore is entered
HbBalance ==
    /\ hb.pc = "balance"
    /\ \E totalValue \in ExchangeValues :
         /\ Apply(updateBalance(dailyStats, totalValue), "updateBalance")
         /\ hb' = [HbIdle EXCEPT !.pc = "core", !.total = totalValue]
    /\ UNCHANGED <<today, scan, oco, filled, manualReset>>
    /\ sent' = <<>>
    /\ UNCHANGED trailVars

HbBalanceFails ==
    /\ hb.pc = "balance"
    /\ hb' = HbIdle
    /\ UNCHANGED <<rmVars, today, scan, oco, filled, manualReset>>
    /\ sent' = <<>>
    /\ UNCHANGED trailVars

\* A test of the core value against the target, without the buffer.
coreBelowBuffer_noBuffer(totalValue, currentCoreValue) ==
    100 * currentCoreValue < totalValue * corePct

\* checkMaintainCore: currentCoreValue < totalValue * (allocation.core - 0.05)
coreBelowBuffer(totalValue, currentCoreValue) ==
    100 * currentCoreValue < totalValue * (corePct - 5)

\* The whole deficit as the purchase of every core coin.
buyAmount_whole(totalValue, currentCoreValue) ==
    (totalValue * corePct - 100 * currentCoreValue) * Len(coreCoins)

\* checkMaintainCore: buyAmount = deficit / coreCoins.length, in
\* 1/(100 * coreCoins.length) USDT
buyAmount(totalValue, currentCoreValue) ==
    totalValue * corePct - 100 * currentCoreValue

\* checkMaintainCore: the market orders of a pass in which no call rejects
coreOrders(totalValue, currentCoreValue) ==
    IF /\ coreBelowBuffer(totalValue, currentCoreValue)
       /\ buyAmount(totalValue, currentCoreValue)
             >= minOrderSizeUsdt * 100 * Len(coreCoins)
    THEN [i \in 1..Len(coreCoins) |->
            [symbol |-> coreCoins[i], side |-> "BUY",
             quoteAmount |-> buyAmount(totalValue, currentCoreValue)]]
    ELSE <<>>

\* checkMaintainCore: the value of the core holdings, the 5% buffer, the
\* even split of the deficit and the minimum order size
HbCore ==
    /\ hb.pc = "core"
    /\ \E currentCoreValue \in CoreValues :
         /\ currentCoreValue <= hb.total
         /\ hb' = IF coreOrders(hb.total, currentCoreValue) # <<>>
                  THEN [HbIdle EXCEPT !.pc = "price", !.idx = 1]
                  ELSE [HbIdle EXCEPT !.pc = "trail"]
    /\ UNCHANGED <<rmVars, today, scan, oco, filled, manualReset>>
    /\ sent' = <<>>
    /\ UNCHANGED trailVars

\* checkMaintainCore: getPrice settles and the core marketBuy is submitted
HbPrice ==
    /\ hb.pc = "price"
    /\ hb' = [hb EXCEPT !.pc = "buy"]
    /\ UNCHANGED <<rmVars, today, scan, oco, filled, manualReset>>
    /\ sent' = <<>>
    /\ UNCHANGED trailVars

\* checkMaintainCore: the core marketBuy filled; the next core coin
HbBuy ==
    /\ hb.pc = "buy"
    /\ hb' = IF hb.idx < Len(coreCoins)
             THEN [hb EXCEPT !.pc = "price", !.idx = @ + 1]
             ELSE [HbIdle EXCEPT !.pc = "trail"]
    /\ UNCHANGED <<rmVars, today, scan, oco, filled, manualReset>>
    /\ sent' = <<"Core Rebalance">>
    /\ UNCHANGED trailVars

\* checkMaintainCore: a call rejects; the catch block ends the pass
HbCoreFails ==
    /\ hb.pc \in {"core", "price", "buy"}
    /\ hb' = [HbIdle EXCEPT !.pc = "trail"]
    /\ UNCHANGED <<rmVars, today, scan, oco, filled, manualReset>>
    /\ sent' = <<>>
    /\ UNCHANGED trailVars

\* heartbeat: manageTrailingStops, the daily recap, the log line
HbTrailingStops ==
    /\ hb.pc = "trail"
    /\ TrailingPass
    /\ \E a \in TrailingAlerts, recap \in {<<>>, <<"DAILY PERFORMANCE RECAP">>} :
         sent' = a \o recap
    /\ hb' = HbIdle
    /\ UNCHANGED <<rmVars, today, scan, filled, manualReset>>
    /\ UNCHANGED trailVars

\* The exchange fills one leg of an exit pair, which cancels the other.
OcoFilled ==
    /\ \E p \in oco : oco' = oco \ {p}
    /\ UNCHANGED <<rmVars, today, scan, hb, filled, manualReset>>
    /\ sent' = <<>>
    /\ UNCHANGED trailVars

Next ==
    \/ TickStart \/ TickBalance \/ TickBalanceFails \/ TickSentiment
    \/ TickOpenOrders \/ TickOpenOrdersFails
    \/ ProcessPairCandles \/ ProcessPairCandlesFails
    \/ ProcessPairNews \/ ProcessPairAnalyze
    \/ ExecValue \/ ExecPrice \/ ExecFails
    \/ ExecBuy \/ ExecBuyFilledThrows \/ ExecOco \/ ExecOcoFails
    \/ TickRecheck \/ ScanTrailingStops
    \/ HbStart \/ HbBalance \/ HbBalanceFails
    \/ HbCore \/ HbPrice \/ HbBuy \/ HbCoreFails \/ HbTrailingStops
    \/ OcoFilled
    \/ HandlePause \/ HandleResume \/ Restart

Spec == Init /\ [][Next]_vars

(***************************************************************************)
(* TradingEngine.runLoop alone, for what it does eventually.  A step of    *)
(* the loop is an awaited call that settles or rejects, or a sleep that    *)
(* ends; weak fairness of the steps says that no call and no timer of the  *)
(* loop stays pending for ever.                                            *)
(***************************************************************************)
LoopStep ==
    \/ TickStart \/ TickBalance \/ TickBalanceFails \/ TickSentiment
    \/ TickOpenOrders \/ TickOpenOrdersFails
    \/ ProcessPairCandles \/ ProcessPairCandlesFails
    \/ ProcessPairNews \/ ProcessPairAnalyze
    \/ ExecValue \/ ExecPrice \/ ExecFails
    \/ ExecBuy \/ ExecBuyFilledThrows \/ ExecOco \/ ExecOcoFails
    \/ TickRecheck \/ ScanTrailingStops

NextLoop == LoopStep \/ OcoFilled

SpecLoop == Init /\ [][NextLoop]_vars /\ WF_vars(LoopStep)

(***************************************************************************)
(* The TradingEngine with writes of daily_stats.json that can fail:        *)
(* fs.writeFileSync throws out of saveStats after the operation changed    *)
(* the statistics in memory, and the file keeps what it held.              *)
(***************************************************************************)
\* A RiskManager operation whose saveStats throws.
ApplyUnsaved(r, name) ==
    /\ dailyStats' = r.stats
    /\ logged' = r.log
    /\ op' = name
    /\ UNCHANGED ret
    /\ UNCHANGED persisted

\* tick: updateBalance throws; runLoop's catch logs and sleeps
TickBalanceWriteFails ==
    /\ scan.pc = "balance"
    /\ \E v \in ExchangeValues :
         ApplyUnsaved(updateBalance(dailyStats, v), "updateBalance")
    /\ scan' = ScanIdle
    /\ UNCHANGED <<today, hb, oco, filled, manualReset>>
    /\ sent' = <<>>
    /\ UNCHANGED trailVars

\* heartbeat: updateBalance throws; the catch block logs and the pass ends
HbBalanceWriteFails ==
    /\ hb.pc = "balance"
    /\ \E totalValue \in ExchangeValues :
         ApplyUnsaved(updateBalance(dailyStats, totalValue), "updateBalance")
    /\ hb' = HbIdle
    /\ UNCHANGED <<today, scan, oco, filled, manualReset>>
    /\ sent' = <<>>
    /\ UNCHANGED trailVars

\* executeSatelliteTrade: ocoSell placed; recordTrade throws; the catch
\* block logs and returns
ExecOcoWriteFails ==
    /\ scan.pc = "exec_oco"
    /\ dailyStats.tradesCount < MaxTradesCount
    /\ oco' = oco \cup {pairs[scan.idx]}
    /\ ApplyUnsaved(recordTrade(dailyStats), "recordTrade")
    /\ scan' = EndPair
    /\ UNCHANGED <<today, hb, filled, manualReset>>
    /\ sent' = <<>>
    /\ UNCHANGED trailVars

NextWF ==
    \/ Next
    \/ TickBalanceWriteFails
    \/ HbBalanceWriteFails
    \/ ExecOcoWriteFails

SpecWF == Init /\ [][NextWF]_vars

(***************************************************************************)
(* The TradingEngine running across midnight.                              *)
(***************************************************************************)
NextDay ==
    \/ Next
    \/ DayAdvance

SpecDay == Init /\ [][NextDay]_vars

(***************************************************************************)
(* The RiskManager driven directly, as its tests do.                       *)
(***************************************************************************)
CallUpdateBalance ==
    \E v \in Balances :
        /\ Apply(updateBalance(dailyStats, v), "updateBalance")
        /\ UNCHANGED <<today, engineVars, manualReset>>
        /\ sent' = <<>>
    /\ UNCHANGED trailVars

CallRecordTrade ==
    /\ dailyStats.tradesCount < MaxTradesCount
    /\ Apply(recordTrade(dailyStats), "recordTrade")
    /\ UNCHANGED <<today, engineVars, manualReset>>
    /\ sent' = <<>>
    /\ UNCHANGED trailVars

CallResetBreaker ==
    /\ Apply(resetBreaker(dailyStats), "resetBreaker")
    /\ manualReset' = TRUE
    /\ UNCHANGED <<today, engineVars>>
    /\ sent' = <<>>
    /\ UNCHANGED trailVars

NextRM ==
    \/ CallUpdateBalance
    \/ CallRecordTrade
    \/ CallResetBreaker
    \/ HandlePause
    \/ HandleResume
    \/ Restart
    \/ DayAdvance

SpecRM == Init /\ [][NextRM]_vars

(***************************************************************************)
(* The sizing and the exit points called directly, as their tests do: on   *)
(* a breaker that is halted or not, with the configuration the test of the *)
(* exposure cap sets (maxRiskPerTrade 0.5) and with a small exposure.      *)
(***************************************************************************)
Configs ==
    {[config EXCEPT !.maxRiskPerTradePct = r, !.maxSatelliteExposurePct = e] :
        r \in {maxRiskPerTradePct, 50}, e \in {maxSatelliteExposurePct, 1}}
    \cup {[config EXCEPT !.maxRiskPerTradePct = r, !.minOrderSizeUsdt = 30] :
             r \in {maxRiskPerTradePct, 50}}

TargetGains ==
    {Null, NaN, [str |-> "10"]} \cup {[num |-> n] : n \in TargetGainNumbers}

CallCalculatePositionSize ==
    \E cfg \in Configs, totalCapital \in Capitals, confidenceScore \in Scores :
        /\ ret' = [fn |-> "calculatePositionSize",
                   cfg |-> cfg,
                   isHalted |-> dailyStats.isHalted,
                   totalCapital |-> totalCapital,
                   confidenceScore |-> confidenceScore,
                   value |-> calculatePositionSize(cfg, dailyStats, totalCapital,
                                                   confidenceScore)]
        /\ UNCHANGED <<dailyStats, persisted, logged, op, today, engineVars,
                       manualReset>>
        /\ sent' = <<>>
    /\ UNCHANGED trailVars

CallGetExitPoints ==
    \E entryPrice \in EntryPrices, side \in Sides, targetGain \in TargetGains :
        /\ ret' = [fn |-> "getExitPoints",
                   entryPrice |-> entryPrice,
                   side |-> side,
                   targetGain |-> targetGain,
                   value |-> getExitPoints(entryPrice, side, targetGain)]
        /\ UNCHANGED <<dailyStats, persisted, logged, op, today, engineVars,
                       manualReset>>
        /\ sent' = <<>>
    /\ UNCHANGED trailVars

\* A direct evaluation of the rebalance of checkMaintainCore(totalValue) that
\* finds currentCoreValue in the core coins.
CallCheckMaintainCore ==
    \E totalValue \in Capitals, currentCoreValue \in CoreHoldings :
        /\ ret' = [fn |-> "checkMaintainCore",
                   totalValue |-> totalValue,
                   currentCoreValue |-> currentCoreValue,
                   value |-> coreOrders(totalValue, currentCoreValue)]
        /\ UNCHANGED <<dailyStats, persisted, logged, op, today, engineVars,
                       manualReset, trailVars>>
        /\ sent' = <<>>

NextCalc ==
    \/ CallCalculatePositionSize
    \/ CallGetExitPoints
    \/ CallCheckMaintainCore
    \/ CallRecordTrade
    \/ HandlePause
    \/ HandleResume

SpecCalc == Init /\ [][NextCalc]_vars

(***************************************************************************)
(* TradingEngine.manageTrailingStops, one action for each awaited call of  *)
(* a pass that settles.  runLoop starts a pass after every tick, heartbeat *)
(* after every checkMaintainCore, so two passes can be under way at once.  *)
(* Here the book carries the prices of every exit pair; the engine         *)
(* specifications above see a pass as TrailingPass and leave the book as   *)
(* it is.  The book keeps one exit pair for a symbol, so an entry on a     *)
(* symbol waits while a replacement for it is outstanding.                 *)
(***************************************************************************)

\* binance.getOpenOrders: the exit pairs that are open
OpenOrders(b) == {s \in PairSet : b[s].open}

\* manageTrailingStops "for (const order of stopOrders)": the next order of
\* the pass, else its end.
NextOrder(pass) ==
    IF Len(pass.todo) <= 1
    THEN TrailIdle
    ELSE [pass EXCEPT !.pc = "price", !.todo = Tail(@),
                      !.currentPrice = 0, !.newStopPrice = 0]

\* manageTrailingStops: currentPrice > stopPrice * 1.02
shouldRatchet(currentPrice, stopPrice) ==
    currentPrice * 100 > stopPrice * 102

\* A new stop 1% below the old one.
newStopPrice_lower(stopPrice) == stopPrice * 99

\* manageTrailingStops: newStopPrice = stopPrice * 1.01, in 1/100 of a tick
newStopPrice(stopPrice) == stopPrice * 101

\* manageTrailingStops: the price of the LIMIT_MAKER order of the symbol in
\* openOrders, else currentPrice * 1.04; in 1/100 of a tick
originalTP(openOrders, symbol, currentPrice) ==
    IF openOrders[symbol].open
    THEN openOrders[symbol].price * 100
    ELSE currentPrice * 104

\* binance.roundPrice: Math.round(price / tickSize) * tickSize, of a price in
\* 1/100 of a tick
roundPrice(price) == (price + 50) \div 100

\* A step of a pass that compares no prices.
NoDecision == [fn |-> "none"]

\* runLoop / heartbeat: manageTrailingStops is called, getOpenOrders is awaited
TrailStart ==
    \E p \in Passers :
        /\ trail[p].pc = "idle"
        /\ trail' = [trail EXCEPT ![p] = [TrailIdle EXCEPT !.pc = "orders"]]
        /\ sent' = <<>>
        /\ ret' = NoDecision
        /\ UNCHANGED <<dailyStats, persisted, logged, op, today, engineVars,
                       manualReset, book>>

\* manageTrailingStops: getOpenOrders settles; stopOrders; getPrice of the
\* first order is awaited
TrailOrders ==
    \E p \in Passers :
        /\ trail[p].pc = "orders"
        /\ LET stopOrders == SelectSeq(pairs, LAMBDA s : book[s].open)
           IN trail' = [trail EXCEPT ![p] =
                           IF stopOrders = <<>> THEN TrailIdle
                           ELSE [TrailIdle EXCEPT !.pc = "price",
                                                  !.openOrders = book,
                                                  !.todo = stopOrders]]
        /\ sent' = <<>>
        /\ ret' = NoDecision
        /\ UNCHANGED <<dailyStats, persisted, logged, op, today, engineVars,
                       manualReset, book>>

\* manageTrailingStops: getPrice settles; the trigger; the cancel is awaited
TrailPrice ==
    \E p \in Passers, currentPrice \in Prices :
        LET pass == trail[p]
            symbol == Head(pass.todo)
            stopPrice == pass.openOrders[symbol].stopPrice
        IN /\ pass.pc = "price"
           /\ trail' = [trail EXCEPT ![p] =
                           IF shouldRatchet(currentPrice, stopPrice)
                           THEN [pass EXCEPT !.pc = "cancel",
                                             !.currentPrice = currentPrice,
                                             !.newStopPrice = newStopPrice(stopPrice)]
                           ELSE NextOrder(pass)]
           /\ ret' = [fn |-> "manageTrailingStops", by |-> p, symbol |-> symbol,
                      stopPrice |-> stopPrice, currentPrice |-> currentPrice]
           /\ sent' = <<>>
           /\ UNCHANGED <<dailyStats, persisted, logged, op, today, engineVars,
                          manualReset, book>>

\* manageTrailingStops: cancelOrderList settles; ocoSell is awaited
TrailCancel ==
    \E p \in Passers :
        LET pass == trail[p]
            symbol == Head(pass.todo)
        IN /\ pass.pc = "cancel"
           /\ book[symbol].open
           /\ book[symbol].orderListId = pass.openOrders[symbol].orderListId
           /\ book' = [book EXCEPT ![symbol] = NoOrder(@.orderListId)]
           /\ oco' = OpenOrders(book')
           /\ trail' = [trail EXCEPT ![p].pc = "oco"]
           /\ sent' = <<>>
           /\ ret' = NoDecision
           /\ UNCHANGED <<dailyStats, persisted, logged, op, today, scan, hb,
                          filled, manualReset>>

\* manageTrailingStops: ocoSell settles; sendAlert; the next order
TrailOco ==
    \E p \in Passers :
        LET pass == trail[p]
            symbol == Head(pass.todo)
        IN /\ pass.pc = "oco"
           /\ ~book[symbol].open
           /\ book[symbol].orderListId < MaxOrders
           /\ book' = [book EXCEPT ![symbol] =
                          [orderListId |-> @.orderListId + 1,
                           open |-> TRUE,
                           stopPrice |-> roundPrice(pass.newStopPrice),
                           price |-> roundPrice(originalTP(pass.openOrders, symbol,
                                                           pass.currentPrice))]]
           /\ oco' = OpenOrders(book')
           /\ trail' = [trail EXCEPT ![p] = NextOrder(pass)]
           /\ sent' = <<"Trailing Stop updated">>
           /\ ret' = NoDecision
           /\ UNCHANGED <<dailyStats, persisted, logged, op, today, scan, hb,
                          filled, manualReset>>

\* manageTrailingStops: an awaited call rejects (getOpenOrders, getPrice, the
\* cancel of an order that is open no more or for any cause, ocoSell); the
\* catch block around the loop logs and the pass is over
TrailFails ==
    \E p \in Passers :
        /\ trail[p].pc \in {"orders", "price", "cancel", "oco"}
        /\ trail' = [trail EXCEPT ![p] = TrailIdle]
        /\ sent' = <<>>
        /\ ret' = NoDecision
        /\ UNCHANGED <<dailyStats, persisted, logged, op, today, engineVars,
                       manualReset, book>>

\* executeSatelliteTrade: ocoSell at the exit points of the entry price
PlaceExit ==
    \E symbol \in PairSet, entryPrice \in TrailEntryPrices :
        LET exits == getExitPoints(entryPrice, "BUY", Null)
        IN /\ ~book[symbol].open
           /\ \A p \in Passers :
                trail[p].pc = "oco" => Head(trail[p].todo) # symbol
           /\ book[symbol].orderListId < MaxOrders
           /\ book' = [book EXCEPT ![symbol] =
                          [orderListId |-> @.orderListId + 1,
                           open |-> TRUE,
                           stopPrice |-> exits.stopLoss,
                           price |-> exits.takeProfit]]
           /\ oco' = OpenOrders(book')
           /\ sent' = <<"Trade BUY">>
           /\ ret' = NoDecision
           /\ UNCHANGED <<dailyStats, persisted, logged, op, today, scan, hb,
                          filled, manualReset, trail>>

\* The exchange fills one leg of an exit pair, which cancels the other.
ExitFilled ==
    \E symbol \in PairSet :
        /\ book[symbol].open
        /\ book' = [book EXCEPT ![symbol] = NoOrder(@.orderListId)]
        /\ oco' = OpenOrders(book')
        /\ sent' = <<>>
        /\ ret' = NoDecision
        /\ UNCHANGED <<dailyStats, persisted, logged, op, today, scan, hb,
                       filled, manualReset, trail>>

NextTrail ==
    \/ TrailStart \/ TrailOrders \/ TrailPrice \/ TrailCancel \/ TrailOco
    \/ TrailFails
    \/ PlaceExit \/ ExitFilled

SpecTrail == Init /\ [][NextTrail]_vars

(***************************************************************************)
(* Properties of the TradingEngine, checked under Spec.                    *)
(***************************************************************************)

\* C1: while the breaker is halted (tripped or paused) no satellite market
\* buy is submitted.
C1_NoEntryWhileHalted ==
    [][ExecPrice => canTrade(dailyStats)]_vars

\* Some breaker condition holds of the statistics.
BreakerConditionHolds(ds) ==
    LossLimitReached(ds) \/ MaxTradesReached(ds) \/ MinBalanceBreached(ds)

\* C2: while the breaker is halted and one of its conditions (daily loss,
\* trade count, minimum balance) holds, no market buy is submitted, neither
\* a satellite entry nor a core-rebalance purchase.
C2_NoBuyAfterTrip ==
    [][(ExecPrice \/ HbPrice)
         => ~(dailyStats.isHalted /\ BreakerConditionHolds(dailyStats))]_vars

\* C3: on a day without a manual reset at most maxTradesPerDay satellite
\* market buys are filled.
C3_FillsWithinMaxTrades ==
    ~manualReset => filled <= maxTradesPerDay

\* A step in which executeSatelliteTrade returns after marketBuy reported
\* its fill and the exit pair was requested.
EndsWithFilledEntry ==
    /\ scan.pc = "exec_oco"
    /\ scan.bought
    /\ scan'.pc = "recheck"

\* C5: an execution whose market buy filled returns only from the step in
\* which its take-profit/stop-loss pair was placed, also when the request
\* for the pair fails.
C5_FilledEntryHasExitPair ==
    [][EndsWithFilledEntry => ExecOco]_vars

\* C12: when the calendar date has advanced while the process runs, the
\* statistics are those of the new day (reset) once a scan cycle has updated
\* the balance and asked canTrade(), so no cycle is gated by the breaker or
\* the trade count of yesterday.
C12_ResetOnNewDay ==
    [][TickBalance => dailyStats'.date = today]_vars

\* C14: a process restart on the day of the saved record never takes the
\* breaker from halted to not halted, also when the write of the statistics
\* failed in the operation that latched the halt.
C14_HaltSurvivesRestart ==
    [][(Restart /\ persisted.date = today /\ dailyStats.isHalted)
         => dailyStats'.isHalted]_vars

\* A step in which checkBreakers takes the breaker from Active to Halted
\* (it logs a breaker event exactly then).
BreakerTrips ==
    /\ ~dailyStats.isHalted
    /\ dailyStats'.isHalted
    /\ logged' # <<>>

\* C21: the step in which checkBreakers trips the breaker requests a
\* notification of the Discord channel.
C21_TripIsNotified ==
    [][BreakerTrips => sent' # <<>>]_vars

\* The awaits of tick at which a pair of the cycle is scanned.
PairPcs == {"candles", "news", "analyze"}

\* The awaits of executeSatelliteTrade.
ExecPcs == {"exec_value", "exec_price", "exec_buy", "exec_oco"}

\* C22: when tick has returned and the trailing-stop pass of the cycle has not
\* begun, the configured pairs that hold an open exit order are at most
\* maxOpenSatelliteTrades.
C22_OpenTradesWithinCap ==
    scan.pc = "trail"
        => Cardinality(OpenOrderSymbols \cap PairSet) <= maxOpenSatelliteTrades

\* C23: processPair and executeSatelliteTrade run only for a pair that had no
\* open order when the cycle read the open orders.
C23_NoSecondPosition ==
    scan.pc \in PairPcs \cup ExecPcs => pairs[scan.idx] \notin scan.open

C25_OneAttemptPerPair ==
    [][/\ scan.pc \in ExecPcs
            => \/ scan'.pc \in ExecPcs /\ scan'.idx = scan.idx
               \/ scan'.pc = "recheck" /\ scan'.idx = scan.idx
               \/ scan'.pc = "sleep"
       /\ (scan' # scan /\ scan'.pc = "exec_value") => scan.pc = "analyze"
       /\ (scan.pc = "recheck" /\ scan'.pc \in PairPcs \cup ExecPcs)
            => scan'.idx > scan.idx]_vars

C25_Witness ==
    /\ scan.pc = "exec_buy"
    /\ scan.idx = 2

\* C26: getLatestNews is requested only with readings that pass the pre-screen
\* (4h RSI at most 65, volatility at most 5%, 1h RSI oversold or in the
\* momentum band), and only by the pre-screen of the pair; analyzeNews is
\* requested only for the news items of that request.
C26_NewsAfterPreScreen ==
    [][/\ scan'.pc = "news"
            => /\ scan'.screen # Null
               /\ scan'.screen.rsi4h <= 65
               /\ scan'.screen.volatility <= 50
               /\ \/ scan'.screen.rsi1h < rsiOversold
                  \/ scan'.screen.rsi1h > 45 /\ scan'.screen.rsi1h < 60
       /\ (scan' # scan /\ scan'.pc = "news")
            => scan.pc = "candles" /\ scan'.idx = scan.idx
       /\ (scan' # scan /\ scan'.pc = "analyze")
            => scan.pc \in {"news", "analyze"} /\ scan'.idx = scan.idx]_vars

C26_Witness ==
    /\ scan.pc = "news"
    /\ scan.screen.rsi1h = 46

\* C27: a gauge value below minSentiment ends the tick at once; pairs are
\* scanned and exit orders are placed only in a cycle whose gauge value is at
\* least minSentiment.
C27_SentimentGate ==
    [][/\ (scan.pc = "sentiment" /\ scan'.sentiment # Null
                                 /\ scan'.sentiment.value < minSentiment)
            => scan'.pc = "trail" /\ oco' = oco /\ filled' = filled
       /\ scan'.pc \in {"openOrders", "recheck"} \cup PairPcs \cup ExecPcs
            => scan'.sentiment # Null /\ scan'.sentiment.value >= minSentiment
       /\ (filled' # filled \/ ~(oco' \subseteq oco))
            => scan.pc \in ExecPcs /\ scan.sentiment.value >= minSentiment]_vars

C27_Witness ==
    /\ scan.pc = "trail"
    /\ scan.sentiment = [value |-> 10]

\* C37: whenever a baseline is set (initialBalance > 0), dailyPnL is
\* currentBalance / initialBalance - 1.
C37_PnLConsistent ==
    dailyStats.initialBalance > 0
        => dailyStats.dailyPnL
             = PnL(dailyStats.currentBalance, dailyStats.initialBalance)

\* A balance update, a recorded trade and a resume have interleaved.
C37_Witness ==
    /\ dailyStats.initialBalance = 40
    /\ dailyStats.currentBalance = 38
    /\ dailyStats.tradesCount = 1
    /\ manualReset

(***************************************************************************)
(* Properties of the RiskManager, checked under SpecRM.                    *)
(***************************************************************************)

C6_DailyLossBreaker ==
    (/\ op = "updateBalance"
     /\ dailyStats.initialBalance > 0
     /\ 100 * dailyStats.currentBalance
          <= (100 - dailyLossLimitPct) * dailyStats.initialBalance)
    => ~canTrade(dailyStats)

\* C6 witness: the balance fell from 40 to 38, exactly -5%, and the loss
\* breaker is the one that tripped.
C6_Witness ==
    /\ op = "updateBalance"
    /\ dailyStats.initialBalance = 40
    /\ dailyStats.currentBalance = 38
    /\ logged = <<"Daily loss limit reached">>
    /\ ~canTrade(dailyStats)

\* C7: right after updateBalance(v) with 0 < v < minBalanceToTrade,
\* canTrade() is false, whatever tradesCount and dailyPnL are.
C7_MinBalanceBreaker ==
    (/\ op = "updateBalance"
     /\ dailyStats.currentBalance > 0
     /\ dailyStats.currentBalance < minBalanceToTrade)
    => ~canTrade(dailyStats)

\* C7 witness: no trade recorded, the balance rose from 12 to 14 (positive
\* PnL), and the minimum-balance breaker tripped.
C7_Witness ==
    /\ op = "updateBalance"
    /\ dailyStats.tradesCount = 0
    /\ dailyStats.initialBalance = 12
    /\ dailyStats.currentBalance = 14
    /\ logged = <<"Balance below safe threshold">>
    /\ ~canTrade(dailyStats)

\* C8: after a recordTrade that brings tradesCount to maxTradesPerDay or
\* beyond canTrade() is false; a recordTrade on a halted breaker leaves it
\* halted and logs no breaker event; after resetBreaker canTrade() is true.
C8_TradeCountBreaker ==
    /\ []((op = "recordTrade" /\ dailyStats.tradesCount >= maxTradesPerDay)
            => ~canTrade(dailyStats))
    /\ [](op = "resetBreaker" => canTrade(dailyStats))
    /\ [][(CallRecordTrade /\ dailyStats.isHalted)
            => (dailyStats'.isHalted /\ logged' = <<>>)]_vars

\* C8 witness: one recordTrade more than maxTradesPerDay ran; the breaker
\* is halted and the last call logged nothing.
C8_Witness ==
    /\ op = "recordTrade"
    /\ dailyStats.tradesCount = maxTradesPerDay + 1
    /\ ~canTrade(dailyStats)
    /\ logged = <<>>

\* C9: resetBreaker only clears isHalted (date, initialBalance,
\* currentBalance, tradesCount and dailyPnL are unchanged), and a second
\* resetBreaker changes nothing.
C9_ResetIdempotent ==
    [][CallResetBreaker
         => /\ dailyStats' = [dailyStats EXCEPT !.isHalted = FALSE]
            /\ persisted' = saveStats(dailyStats')
            /\ (op = "resetBreaker" => dailyStats' = dailyStats)]_vars

\* C9 witness: resetBreaker ran on statistics with a balance and trades.
C9_Witness ==
    /\ op = "resetBreaker"
    /\ dailyStats.tradesCount >= maxTradesPerDay
    /\ dailyStats.initialBalance > 0
    /\ canTrade(dailyStats)

C11_SetByFirstCall ==
    [][(op = "updateBalance" /\ CallUpdateBalance)
         => dailyStats'.initialBalance = dailyStats.initialBalance]_vars

\* C11: an updateBalance that finds initialBalance unset (0) sets it to the
\* value it observes, so an observed 0 leaves it unset; once it is not 0 no
\* updateBalance changes it; recordTrade and resetBreaker never change it;
\* and right after updateBalance dailyPnL is currentBalance / initialBalance - 1.
C11_InitialBalanceLatched ==
    /\ [][(CallUpdateBalance /\ dailyStats.initialBalance = 0)
            => dailyStats'.initialBalance = dailyStats'.currentBalance]_vars
    /\ [][(CallUpdateBalance /\ dailyStats.initialBalance # 0)
            => dailyStats'.initialBalance = dailyStats.initialBalance]_vars
    /\ [][(CallRecordTrade \/ CallResetBreaker)
            => dailyStats'.initialBalance = dailyStats.initialBalance]_vars
    /\ [](op = "updateBalance"
            => dailyStats.dailyPnL
                 = PnL(dailyStats.currentBalance, dailyStats.initialBalance))

\* C11 witness: the baseline is 40, a later updateBalance observed 1000, and
\* dailyPnL is 960/40.
C11_Witness ==
    /\ op = "updateBalance"
    /\ dailyStats.initialBalance = 40
    /\ dailyStats.currentBalance = 1000
    /\ dailyStats.dailyPnL = [num |-> 960, den |-> 40]

\* C13: after updateBalance, recordTrade or resetBreaker, loading the saved
\* record on the date of the statistics gives the statistics in memory; and
\* a process start that finds a record of another date starts from the
\* zeroed record of today and saves it.
C13_RoundTrip ==
    /\ [](op \in {"updateBalance", "recordTrade", "resetBreaker"}
            => loadStats(persisted, dailyStats.date) = dailyStats)
    /\ [][(Restart /\ persisted.date # today)
            => /\ dailyStats' = ZeroStats(today)
               /\ persisted' = ZeroStats(today)]_vars

(***************************************************************************)
(* Properties of the sizing and of the exit points, checked under SpecCalc.*)
(***************************************************************************)

\* The last direct call was a sizing that passed the two early returns.
SizedCall ==
    /\ ret.fn = "calculatePositionSize"
    /\ ~ret.isHalted
    /\ ret.confidenceScore >= ret.cfg.minToTrade

\* totalCapital x maxRiskPerTrade x m of the last sizing call, in 1/Unit USDT,
\* with m = 2 from highThreshold on, 1.5 from 75 on, else 1.
TierValue ==
    LET m2 == IF ret.confidenceScore >= ret.cfg.highThreshold THEN 4
              ELSE IF ret.confidenceScore >= 75 THEN 3
              ELSE 2
    IN ret.totalCapital * ret.cfg.maxRiskPerTradePct * m2 * (Unit \div 200)

\* minOrderSizeUsdt of the last sizing call, in 1/Unit USDT.
MinOrderValue == ret.cfg.minOrderSizeUsdt * Unit

\* satelliteCapital of the last sizing call, in 1/Unit USDT.
SatelliteValue == ret.totalCapital * ret.cfg.satellitePct * (Unit \div 100)

\* max(satelliteCapital x maxSatelliteExposure, minOrderSizeUsdt) of the last
\* sizing call, in 1/Unit USDT.
ExposureCapValue ==
    LET exposure == ret.totalCapital * ret.cfg.satellitePct
                      * ret.cfg.maxSatelliteExposurePct * (Unit \div (100 * 100))
    IN IF exposure > MinOrderValue THEN exposure ELSE MinOrderValue

\* C15: calculatePositionSize returns 0 for every totalCapital when the
\* breaker is halted or confidenceScore < minToTrade, and a step in which
\* calculatePositionSize returns changes neither the statistics in memory
\* nor the saved record.
C15_RefusedSizeIsZero ==
    /\ []((/\ ret.fn = "calculatePositionSize"
           /\ (ret.isHalted \/ ret.confidenceScore < ret.cfg.minToTrade))
            => ret.value = 0)
    /\ [][(ret' # ret /\ ret'.fn = "calculatePositionSize")
            => UNCHANGED <<dailyStats, persisted>>]_vars

\* C15 witness: a halted breaker was asked to size 1000 USDT at confidence
\* 90 and returned 0.
C15_Witness ==
    /\ ret.fn = "calculatePositionSize"
    /\ ret.isHalted
    /\ dailyStats.isHalted
    /\ ret.totalCapital = 1000
    /\ ret.confidenceScore = 90
    /\ ret.value = 0

\* C16: for a sizing that passed the early returns, when the tier value
\* totalCapital x maxRiskPerTrade x m is neither below minOrderSizeUsdt (no
\* floor) nor above the exposure cap (no cap), the value returned is that
\* tier value; with the default configuration capital 1000 gives 10 at
\* confidence 65 and 20 at confidence 90.
C16_ConfidenceTiers ==
    /\ (/\ SizedCall
        /\ TierValue >= MinOrderValue
        /\ TierValue <= ExposureCapValue)
       => ret.value = TierValue
    /\ calculatePositionSize(config, ZeroStats(1), 1000, 65) = 10 * Unit
    /\ calculatePositionSize(config, ZeroStats(1), 1000, 90) = 20 * Unit

\* C16 witness: capital 1000 at confidence 75, the middle tier, with the
\* default configuration gave 15 USDT.
C16_Witness ==
    /\ SizedCall
    /\ ret.cfg = config
    /\ ret.totalCapital = 1000
    /\ ret.confidenceScore = 75
    /\ ret.value = 15 * Unit

\* C17: for a sizing that passed the early returns, when the tier value is
\* below minOrderSizeUsdt the value returned is exactly minOrderSizeUsdt if
\* satelliteCapital >= minOrderSizeUsdt and 0 otherwise; with the default
\* configuration capital 50 gives 10 at confidence 65 and at confidence 95.
C17_MinimumOrderFloor ==
    /\ (SizedCall /\ TierValue < MinOrderValue)
       => ret.value = IF SatelliteValue >= MinOrderValue THEN MinOrderValue ELSE 0
    /\ calculatePositionSize(config, ZeroStats(1), 50, 65) = 10 * Unit
    /\ calculatePositionSize(config, ZeroStats(1), 50, 95) = 10 * Unit

\* C17 witness: capital 25 (satellite capital exactly 10) at confidence 95
\* was bumped from 0.50 USDT to the minimum order.
C17_Witness ==
    /\ SizedCall
    /\ ret.cfg = config
    /\ ret.totalCapital = 25
    /\ ret.confidenceScore = 95
    /\ TierValue = Unit \div 2
    /\ ret.value = 10 * Unit

\* C18: whatever the arguments, the configuration and the breaker, the value
\* returned is at most max(satelliteCapital x maxSatelliteExposure,
\* minOrderSizeUsdt); capital 1000 with maxRiskPerTrade 0.5, satellite 0.4
\* and exposure 0.25 gives 100 at confidence 90.
C18_ExposureCap ==
    /\ ret.fn = "calculatePositionSize" => ret.value <= ExposureCapValue
    /\ calculatePositionSize([config EXCEPT !.maxRiskPerTradePct = 50],
                             ZeroStats(1), 1000, 90) = 100 * Unit

\* C18 witness: the tier value 1000 USDT (capital 1000, risk 50%, doubled)
\* was clamped to the cap of 100 USDT.
C18_Witness ==
    /\ SizedCall
    /\ ret.cfg = [config EXCEPT !.maxRiskPerTradePct = 50]
    /\ ret.totalCapital = 1000
    /\ ret.confidenceScore = 90
    /\ TierValue = 1000 * Unit
    /\ ret.value = 100 * Unit

\* C19: the stop-loss getExitPoints returns is entryPrice x (1 -
\* defaultStopLoss) for side BUY and entryPrice x (1 + defaultStopLoss) for
\* any other side, whatever the target gain; for BUY the stop is below and
\* the take-profit above the entry, for any other side the stop is above
\* and the take-profit below.
C19_StopLossAndSides ==
    ret.fn = "getExitPoints"
    => IF ret.side = "BUY"
       THEN /\ ret.value.stopLoss = ret.entryPrice * (100 - defaultStopLossPct)
            /\ ret.value.stopLoss < ret.entryPrice * 100
            /\ ret.value.takeProfit > ret.entryPrice * 100
       ELSE /\ ret.value.stopLoss = ret.entryPrice * (100 + defaultStopLossPct)
            /\ ret.value.stopLoss > ret.entryPrice * 100
            /\ ret.value.takeProfit < ret.entryPrice * 100

\* C19 witness: a SELL at 100 with a target gain of 10 has its stop at 102
\* and its take-profit at 90.
C19_Witness ==
    /\ ret.fn = "getExitPoints"
    /\ ret.side = "SELL"
    /\ ret.entryPrice = 100
    /\ ret.targetGain = [num |-> 10]
    /\ ret.value = [stopLoss |-> 10200, takeProfit |-> 9000]

\* The take-profit of the last getExitPoints call lies pct percent from the
\* entry, on the side of the entry that the order side asks for.
TakeProfitAt(pct) ==
    ret.value.takeProfit = IF ret.side = "BUY"
                           THEN ret.entryPrice * (100 + pct)
                           ELSE ret.entryPrice * (100 - pct)

\* targetGain / 100 clamped to [0.02, 0.15], in percent.
Clamped(targetGain) ==
    IF targetGain < 2 THEN 2 ELSE IF targetGain > 15 THEN 15 ELSE targetGain

\* C20 as stated: with no target gain the take-profit fraction is
\* defaultTakeProfit, and with any number as target gain, 0 and negative
\* numbers included, it is targetGain / 100 clamped to [0.02, 0.15].
C20_TakeProfitOfAnyNumber ==
    ret.fn = "getExitPoints"
    => IF "num" \in DOMAIN ret.targetGain
       THEN TakeProfitAt(Clamped(ret.targetGain.num))
       ELSE TakeProfitAt(defaultTakeProfitPct)

\* C20: with no target gain, and with a target gain of 0, the take-profit
\* fraction is defaultTakeProfit; with any other number as target gain,
\* negative numbers included, it is targetGain / 100 clamped to [0.02, 0.15].
C20_TakeProfitFraction ==
    ret.fn = "getExitPoints"
    => IF "num" \in DOMAIN ret.targetGain /\ ret.targetGain.num # 0
       THEN TakeProfitAt(Clamped(ret.targetGain.num))
       ELSE TakeProfitAt(defaultTakeProfitPct)

\* C20 witness: a BUY at 100 with a target gain of -5 has its take-profit
\* at 102, the lower end of the clamp.
C20_Witness ==
    /\ ret.fn = "getExitPoints"
    /\ ret.side = "BUY"
    /\ ret.entryPrice = 100
    /\ ret.targetGain = [num |-> -5]
    /\ ret.value.takeProfit = 10200

\* The tier value of the last sizing call after the small-account floor.
FlooredValue ==
    IF TierValue < MinOrderValue THEN MinOrderValue ELSE TierValue

\* FlooredValue after the exposure cap.
CappedValue ==
    IF FlooredValue > ExposureCapValue THEN ExposureCapValue ELSE FlooredValue

\* C38: calculatePositionSize returns 0 or at least minOrderSizeUsdt, and what
\* it returns for a sizing not refused is the value after the exposure cap:
\* the floor check after the cap changes nothing.
C38_ZeroOrAtLeastMinimum ==
    /\ ret.fn = "calculatePositionSize"
         => (ret.value = 0 \/ ret.value >= MinOrderValue)
    /\ SizedCall
         => ret.value = IF TierValue < MinOrderValue /\ SatelliteValue < MinOrderValue
                        THEN 0 ELSE CappedValue

\* C38 witness: the exposure cap (1% of a bucket of 400) is below the minimum
\* order, and the size returned is the minimum order.
C38_Witness ==
    /\ SizedCall
    /\ ret.cfg.maxSatelliteExposurePct = 1
    /\ ret.totalCapital = 1000
    /\ ret.confidenceScore = 90
    /\ ret.value = MinOrderValue

\* C39: a positive size is returned only when the satellite bucket covers
\* the minimum order.
C39_BucketCoversPositiveSize ==
    (ret.fn = "calculatePositionSize" /\ ret.value > 0)
        => SatelliteValue >= MinOrderValue

\* The last call was a rebalance.
RebalanceCall == ret.fn = "checkMaintainCore"

\* C32: a rebalance places orders only when the core value is below
\* (allocation.core - 0.05) of the total; then it buys, for every core coin,
\* (allocation.core x total - core value) / number of core coins, unless
\* that is below minOrderSizeUsdt, in which case it places no order; it
\* places no sell order.  Amounts in 1/(100 * coreCoins.length) USDT.
C32_CoreRebalance ==
    RebalanceCall =>
        LET below == 100 * ret.currentCoreValue < ret.totalValue * (corePct - 5)
            each == ret.totalValue * corePct - 100 * ret.currentCoreValue
            enough == each >= minOrderSizeUsdt * 100 * Len(coreCoins)
        IN /\ (ret.value # <<>>) <=> (below /\ enough)
           /\ ret.value # <<>> => Len(ret.value) = Len(coreCoins)
           /\ \A i \in DOMAIN ret.value :
                /\ ret.value[i].symbol = coreCoins[i]
                /\ ret.value[i].side = "BUY"
                /\ ret.value[i].quoteAmount = each

C32_Witness ==
    /\ RebalanceCall
    /\ ret.totalValue = 50
    /\ ret.currentCoreValue = 10
    /\ ret.value # <<>>

\* The event of the first breaker condition that holds, in the order loss,
\* trade count, minimum balance.
FirstReason(ds) ==
    IF LossLimitReached(ds) THEN "Daily loss limit reached"
    ELSE IF MaxTradesReached(ds) THEN "Max daily trades reached"
    ELSE "Balance below safe threshold"

\* C35: an operation of the RiskManager logs a breaker event only when it
\* takes the breaker from Active to Halted, and then it logs exactly one
\* event, that of the first condition that holds; an evaluation made while
\* halted logs nothing.
C35_OneEventPerTrip ==
    [][(<<dailyStats, logged>>' # <<dailyStats, logged>> /\ logged' # <<>>)
         => /\ ~dailyStats.isHalted
            /\ dailyStats'.isHalted
            /\ logged' = <<FirstReason(dailyStats')>>]_vars

C35_Witness ==
    /\ logged = <<"Daily loss limit reached">>
    /\ MinBalanceBreached(dailyStats)
    /\ dailyStats.isHalted

(***************************************************************************)
(* Properties of runLoop, checked under SpecLoop.                          *)
(***************************************************************************)

\* C33: whatever calls of a cycle fail, runLoop starts a scan cycle again
\* and again.
C33_LoopKeepsRunning ==
    []<>(scan.pc = "balance")

\* A cycle has started after a market buy whose exit order was never placed
\* (ocoSell rejected, or marketBuy threw after the fill).
C33_Witness ==
    /\ scan.pc = "balance"
    /\ filled > 0
    /\ dailyStats.tradesCount = 0

\* C34: a step taken while a pair is processed (its pre-screen, news,
\* analysis, execution, or the re-check of the cap that follows) leaves the
\* cycle running: it stays with the pair, goes on to its re-check or to a
\* later pair, or ends the tick with the trailing-stop pass next.
C34_FailureIsolation ==
    [][(scan.pc \in PairPcs \cup ExecPcs \cup {"recheck"} /\ scan' # scan)
         => \/ scan'.pc \in PairPcs \cup ExecPcs \cup {"recheck"}
                 /\ scan'.idx >= scan.idx
            \/ scan'.pc = "trail"]_vars

(***************************************************************************)
(* Properties of manageTrailingStops, checked under SpecTrail.             *)
(***************************************************************************)

\* The order a pass is at: the entry of its openOrders for the head of todo.
OrderOf(pass) == pass.openOrders[Head(pass.todo)]

\* A step in which the ocoSell of pass p settles or rejects.
OcoSellReturns(p) ==
    /\ trail[p].pc = "oco"
    /\ trail'[p] # trail[p]

C29_RatchetAtTwoPercent ==
    [][(ret' # ret /\ ret'.fn = "manageTrailingStops")
         => /\ trail'[ret'.by].pc = "cancel"
                  <=> ret'.currentPrice * 100 >= ret'.stopPrice * 102
            /\ book' = book]_vars

\* C30: when the ocoSell of a pass returns, the symbol whose exit pair the
\* pass cancelled has an open exit pair at the take-profit price of the
\* cancelled one.
C30_ReplacementInPlace ==
    [][\A p \in Passers :
         OcoSellReturns(p)
           => /\ book'[Head(trail[p].todo)].open
              /\ book'[Head(trail[p].todo)].price = OrderOf(trail[p]).price]_vars

\* C31: a step of a pass that still has stop orders of its snapshot to
\* evaluate after the one it is at, does not end the pass: the pass goes on
\* with the order it is at or with the next one.
C31_OrdersEvaluatedIndependently ==
    [][\A p \in Passers :
         (/\ trail[p].pc \in {"price", "cancel", "oco"}
          /\ Len(trail[p].todo) > 1
          /\ trail'[p] # trail[p])
           => trail'[p].pc # "idle"]_vars

\* C36: while a trailing-stop pass is between reading the open orders and
\* replacing an order, no other pass is under way.
C36_PassesDoNotOverlap ==
    \A p, q \in Passers :
        (p # q /\ trail[p].pc \in {"price", "cancel", "oco"})
            => trail[q].pc = "idle"

\* The cause of a trip, read from the statistics alone: the trade limit is
\* reached, the balance is at or under the loss limit, or it is positive
\* and under the minimum balance.
TripCause(ds) ==
    \/ ds.tradesCount >= maxTradesPerDay
    \/ /\ ds.initialBalance > 0
       /\ 100 * ds.currentBalance
            <= (100 - dailyLossLimitPct) * ds.initialBalance
    \/ /\ ds.currentBalance > 0
       /\ ds.currentBalance < minBalanceToTrade

\* C40: a reset does not clear the cause of a trip. Whenever the last
\* RiskManager operation is an updateBalance or a recordTrade and a cause of
\* a trip holds, the breaker is halted, whatever resets came before; and a
\* scan cycle whose balance observation finds a cause of a trip goes
\* straight to the trailing pass (or to the retry sleep), so it reaches no
\* satellite entry.
C40_ResetKeepsCause ==
    /\ []((op \in {"updateBalance", "recordTrade"} /\ TripCause(dailyStats))
            => dailyStats.isHalted)
    /\ [][(scan.pc = "balance" /\ scan' # scan /\ TripCause(dailyStats'))
            => (/\ scan'.pc \in {"trail", "sleep"}
                /\ filled' = filled)]_vars

\* C40 witness: after a manual reset with the trade limit already reached,
\* the balance observation of the next scan cycle tripped the breaker again
\* and the cycle went to the trailing pass.
C40_Witness ==
    /\ manualReset
    /\ op = "updateBalance"
    /\ dailyStats.tradesCount >= maxTradesPerDay
    /\ logged = <<"Max daily trades reached">>
    /\ dailyStats.isHalted
    /\ scan.pc = "trail"

====
